---------------------------- MODULE Spec2Model ----------------------------
(***************************************************************************)
(* RedisLess: the command execution engine (run_command_and_get_response), *)
(* the command parser (Command::parse) and the Storage contract they       *)
(* drive, as a state machine.                                              *)
(*                                                                         *)
(* Handlers (one per connection) receive a request, parse it, take the     *)
(* storage mutex, run the arm of the command one storage call at a time,   *)
(* drop the guard and hand the response back.  The clock advances          *)
(* independently of the handlers.                                          *)
(*                                                                         *)
(* The Storage trait has no implementation among the source files, nor     *)
(* have lock_then_release, get_command, Expiry and the protocol literals:  *)
(* those are modelled from the specification (sections 4.2, 4.3, 5, 6).    *)
(***************************************************************************)
EXTENDS Integers, Sequences, FiniteSets

(***************************************************************************)
(* Bounds of the model.                                                    *)
(***************************************************************************)
MaxTime == 2
MaxDur == 1
MaxIncr == 3

(***************************************************************************)
(* Keys and values are byte sequences.  A byte is modelled by a one-letter *)
(* string; "xFF" is a byte that is no valid UTF-8.                         *)
(***************************************************************************)
K1 == <<"k">>
K2 == <<"j">>
Keys == {K1, K2}

BadByte == "xFF"
VText == <<"a">>
VBin == <<BadByte>>
VNum == <<"0", "2">>
Values == {VText, VBin, VNum}

Digits == <<"0", "1", "2", "3", "4", "5", "6", "7", "8", "9">>
DigitChars == {Digits[i] : i \in 1..10}
DigitVal(c) == (CHOOSE i \in 1..10 : Digits[i] = c) - 1

\* std::str::from_utf8(value): Ok exactly when every byte is valid text.
IsUtf8(v) == \A i \in 1..Len(v) : v[i] # BadByte

(***************************************************************************)
(* Decimal text <-> integer, as str::parse::<i64> and i64::to_string do    *)
(* it: an optional sign, then at least one digit; nothing else.            *)
(***************************************************************************)
RECURSIVE DigitsValue(_)
DigitsValue(s) ==
    IF Len(s) = 0 THEN 0
    ELSE 10 * DigitsValue(SubSeq(s, 1, Len(s) - 1)) + DigitVal(s[Len(s)])

AllDigits(s) == Len(s) > 0 /\ \A i \in 1..Len(s) : s[i] \in DigitChars

\* The ends of the i64 range, as the digits of their magnitudes: 2^63 - 1
\* and 2^63.  The integers of the checker are narrower than i64, so the two
\* ends are kept as decimal text and compared digit by digit.
I64MaxDigits ==
    <<"9", "2", "2", "3", "3", "7", "2", "0", "3", "6",
      "8", "5", "4", "7", "7", "5", "8", "0", "7">>
I64MinDigits ==
    <<"9", "2", "2", "3", "3", "7", "2", "0", "3", "6",
      "8", "5", "4", "7", "7", "5", "8", "0", "8">>
I64_MAX == I64MaxDigits
I64_MIN == <<"-">> \o I64MinDigits

RECURSIVE StripZeros(_)
StripZeros(d) ==
    IF Len(d) > 1 /\ d[1] = "0" THEN StripZeros(Tail(d)) ELSE d

\* a <= b for two digit sequences of the same length.
RECURSIVE DigitsLe(_, _)
DigitsLe(a, b) ==
    \/ Len(a) = 0
    \/ DigitVal(a[1]) < DigitVal(b[1])
    \/ a[1] = b[1] /\ DigitsLe(Tail(a), Tail(b))

\* The digits d, with the sign neg, are a number of the i64 range.
InRange(neg, d) ==
    \/ Len(d) < Len(I64MaxDigits)
    \/ LET m == StripZeros(d) IN
        \/ Len(m) < Len(I64MaxDigits)
        \/ /\ Len(m) = Len(I64MaxDigits)
           /\ DigitsLe(m, IF neg THEN I64MinDigits ELSE I64MaxDigits)

ParseOk(s) ==
    /\ IsUtf8(s)
    /\ Len(s) > 0
    /\ IF s[1] \in {"+", "-"}
       THEN AllDigits(Tail(s)) /\ InRange(s[1] = "-", Tail(s))
       ELSE AllDigits(s) /\ InRange(FALSE, s)

\* The text s parses as i64::MAX.
IsI64Max(s) ==
    StripZeros(IF s[1] = "+" THEN Tail(s) ELSE s) = I64MaxDigits

ParseI64(s) ==
    IF s[1] = "-" THEN 0 - DigitsValue(Tail(s))
    ELSE IF s[1] = "+" THEN DigitsValue(Tail(s))
    ELSE DigitsValue(s)

RECURSIVE NatToString(_)
NatToString(n) ==
    IF n < 10 THEN <<Digits[n + 1]>>
    ELSE Append(NatToString(n \div 10), Digits[(n % 10) + 1])

to_string(n) == IF n < 0 THEN <<"-">> \o NatToString(0 - n) ELSE NatToString(n)

(***************************************************************************)
(* Storage: Key -> (Value, optional Expiry).  An entry that is not in the  *)
(* map is the record NoEntry.                                              *)
(***************************************************************************)
NoExpiry == -1
NoEntry == [present |-> FALSE, val |-> <<>>, exp |-> NoExpiry]
Entry(v, e) == [present |-> TRUE, val |-> v, exp |-> e]

\* An Expiry is a point in time after which the pair is invisible.
IsExpired(ent, t) == ent.present /\ ent.exp # NoExpiry /\ t > ent.exp

\* The key as a read sees it at time t.
Visible(s, k, t) == s[k].present /\ ~IsExpired(s[k], t)

\* An elapsed entry is purged by the visibility-sensitive operations.
Purge(s, k, t) == IF IsExpired(s[k], t) THEN [s EXCEPT ![k] = NoEntry] ELSE s

\* Storage::write: inserts or overwrites the value; an Expiry already
\* associated with the key stays (expiry is independent of write).
write(s, k, v) ==
    [s EXCEPT ![k] = IF s[k].present THEN Entry(v, s[k].exp) ELSE Entry(v, NoExpiry)]

\* Storage::expire: <<storage, count>>.
expire(s, k, e, t) ==
    LET p == Purge(s, k, t) IN
    IF p[k].present THEN <<[p EXCEPT ![k] = Entry(p[k].val, e)], 1>> ELSE <<p, 0>>

\* Storage::read: <<storage, found, value>>.
read(s, k, t) ==
    LET p == Purge(s, k, t) IN <<p, p[k].present, p[k].val>>

\* Storage::remove: <<storage, count>>.
remove(s, k) ==
    IF s[k].present THEN <<[s EXCEPT ![k] = NoEntry], 1>> ELSE <<s, 0>>

\* Storage::contains: <<storage, bool>>.
contains(s, k, t) ==
    LET p == Purge(s, k, t) IN <<p, p[k].present>>

(***************************************************************************)
(* Responses are byte sequences; the protocol literals.                    *)
(***************************************************************************)
CRLF == <<"\r", "\n">>
OK == <<"+", "O", "K">> \o CRLF
NIL == <<"$", "-", "1">> \o CRLF
PONG == <<"+", "P", "O", "N", "G">> \o CRLF
EMPTY_LIST == <<"*", "0">> \o CRLF
NoResp == <<>>

\* format!(":{}\r\n", n)
IntReply(n) == <<":">> \o to_string(n) \o CRLF
\* format!("+{}\r\n", text)
TextReply(v) == <<"+">> \o v \o CRLF
\* format!("*{}\r\n", n)
ArrayHeader(n) == <<"*">> \o to_string(n) \o CRLF
\* b"-WRONGTYPE Operation against a key holding the wrong kind of value}}"
WRONGTYPE ==
    <<"-WRONGTYPE", " Operation against a key holding the wrong kind of value", "}", "}">>
\* format!("-ERR {}\r\n", err)
ErrReply(err) == <<"-ERR", " ">> \o err \o CRLF

(***************************************************************************)
(* Commands.  Every command is a record of one shape; the fields a variant *)
(* does not carry hold the defaults of NoCmd.                              *)
(***************************************************************************)
NoCmd == [op |-> "None", k |-> <<>>, v |-> <<>>, e |-> NoExpiry, items |-> <<>>, keys |-> <<>>]
Set(k, v) == [NoCmd EXCEPT !.op = "Set", !.k = k, !.v = v]
Setnx(k, v) == [NoCmd EXCEPT !.op = "Setnx", !.k = k, !.v = v]
Setex(k, e, v) == [NoCmd EXCEPT !.op = "Setex", !.k = k, !.e = e, !.v = v]
PSetex(k, e, v) == [NoCmd EXCEPT !.op = "PSetex", !.k = k, !.e = e, !.v = v]
MSet(items) == [NoCmd EXCEPT !.op = "MSet", !.items = items]
MSetnx(items) == [NoCmd EXCEPT !.op = "MSetnx", !.items = items]
Expire(k, e) == [NoCmd EXCEPT !.op = "Expire", !.k = k, !.e = e]
PExpire(k, e) == [NoCmd EXCEPT !.op = "PExpire", !.k = k, !.e = e]
Get(k) == [NoCmd EXCEPT !.op = "Get", !.k = k]
GetSet(k, v) == [NoCmd EXCEPT !.op = "GetSet", !.k = k, !.v = v]
MGet(keys) == [NoCmd EXCEPT !.op = "MGet", !.keys = keys]
Del(k) == [NoCmd EXCEPT !.op = "Del", !.k = k]
Incr(k) == [NoCmd EXCEPT !.op = "Incr", !.k = k]
Exists(k) == [NoCmd EXCEPT !.op = "Exists", !.k = k]
Info == [NoCmd EXCEPT !.op = "Info"]
Ping == [NoCmd EXCEPT !.op = "Ping"]
Quit == [NoCmd EXCEPT !.op = "Quit"]

StorageOps ==
    {"Set", "Setnx", "Setex", "PSetex", "MSet", "MSetnx", "Expire", "PExpire",
     "Get", "GetSet", "MGet", "Del", "Incr", "Exists"}

(***************************************************************************)
(* Requests: the decoded protocol values of one request.  A keyword is a   *)
(* bulk string whose bytes are written as one string; keys, values and     *)
(* durations are byte sequences.                                           *)
(***************************************************************************)
Bulk(b) == [t |-> "bulk", b |-> b]
NotBulk == [t |-> "integer", b |-> <<>>]

ParseOkCmd(c) == [ok |-> TRUE, cmd |-> c, err |-> <<>>, panic |-> FALSE]
ParseErr(e) == [ok |-> FALSE, cmd |-> NoCmd, err |-> e, panic |-> FALSE]
\* parse does not return: an unwrap() in it panics.
ParsePanic == [ok |-> FALSE, cmd |-> NoCmd, err |-> <<>>, panic |-> TRUE]
InvalidCommand == <<"InvalidCommand">>
ArgNumber == <<"ArgNumber">>
InvalidArgument == <<"InvalidArgument">>
InvalidDuration == <<"InvalidDuration">>
NotSupported(name) == <<"NotSupported", " ">> \o name

\* One model second, in clock ticks (a millisecond is one tick).
SecTicks == 2

\* get_bytes_vec(v.get(i)): the bytes of the bulk string at position i.
HasBytes(v, i) == i <= Len(v) /\ v[i].t = "bulk"

\* parse_duration: the text of a non-negative integer.
DurationOk(b) == AllDigits(b)
parse_duration(b) == DigitsValue(b)

\* Expiry::new_from_secs / new_from_millis: the instant, from the clock.
new_from_secs(d, t) == t + d * SecTicks
new_from_millis(d, t) == t + d

\* The pairs of an MSET / MSETNX request, in order (chunks_exact(2)).
PairsOf(v) == [i \in 1..((Len(v) - 1) \div 2) |-> <<v[2 * i].b, v[2 * i + 1].b>>]
KeysOf(v) == [i \in 1..(Len(v) - 1) |-> v[i + 1].b]
AllBulk(v) == \A i \in 2..Len(v) : v[i].t = "bulk"

\* What the argument checks of an arm of parse return: the error of the first
\* check that fails (the ? operator), NoErr when all pass.
NoErr == <<>>

\* get_bytes_vec(v.get(1))?
ErrK(v) == IF HasBytes(v, 1 + 1) THEN NoErr ELSE InvalidArgument

\* get_bytes_vec(v.get(1))?; get_bytes_vec(v.get(2))?
ErrKV(v) == IF HasBytes(v, 1 + 1) /\ HasBytes(v, 1 + 2) THEN NoErr ELSE InvalidArgument

\* get_bytes_vec(v.get(1))?; get_bytes_vec(v.get(2)).and_then(parse_duration)?
ErrKD(v) ==
    IF ~HasBytes(v, 1 + 1) \/ ~HasBytes(v, 1 + 2) THEN InvalidArgument
    ELSE IF ~DurationOk(v[3].b) THEN InvalidDuration
    ELSE NoErr

\* ... and get_bytes_vec(v.get(3))?
ErrKDV(v) ==
    IF ErrKD(v) # NoErr THEN ErrKD(v)
    ELSE IF ~HasBytes(v, 1 + 3) THEN InvalidArgument
    ELSE NoErr

\* pairs.is_empty() || pairs.len() % 2 != 0, then get_bytes_vec on each.
ErrPairs(v) ==
    IF Len(v) = 1 \/ (Len(v) - 1) % 2 # 0 THEN ArgNumber
    ELSE IF ~AllBulk(v) THEN InvalidArgument
    ELSE NoErr

\* keys.is_empty(), then get_bytes_vec on each.
ErrKeys(v) ==
    IF Len(v) = 1 THEN ArgNumber
    ELSE IF ~AllBulk(v) THEN InvalidArgument
    ELSE NoErr

\* Ok(c) when the checks passed, Err(e) otherwise.
Result(e, c) == IF e = NoErr THEN ParseOkCmd(c) ELSE ParseErr(e)

\* The spellings of each keyword that the arms of parse list.
Keywords ==
    [Set |->
        {<<"S", "E", "T">>,
         <<"s", "e", "t">>,
         <<"S", "e", "t">>},
     Setex |->
        {<<"S", "E", "T", "E", "X">>,
         <<"s", "e", "t", "e", "x">>,
         <<"S", "e", "t", "E", "x">>,
         <<"S", "e", "t", "e", "x">>},
     PSetex |->
        {<<"P", "S", "E", "T", "E", "X">>,
         <<"p", "s", "e", "t", "e", "x">>,
         <<"P", "S", "e", "t", "E", "x">>,
         <<"P", "S", "e", "t", "e", "x">>},
     MSet |->
        {<<"M", "S", "E", "T">>,
         <<"M", "S", "e", "t">>,
         <<"m", "s", "e", "t">>},
     MSetnx |->
        {<<"M", "S", "E", "T", "N", "X">>,
         <<"M", "S", "e", "t", "n", "x">>,
         <<"m", "s", "e", "t", "n", "x">>},
     Setnx |->
        {<<"S", "E", "T", "N", "X">>,
         <<"s", "e", "t", "n", "x">>,
         <<"S", "e", "t", "n", "x">>},
     Expire |->
        {<<"E", "X", "P", "I", "R", "E">>,
         <<"e", "x", "p", "i", "r", "e">>,
         <<"E", "x", "p", "i", "r", "e">>},
     PExpire |->
        {<<"P", "E", "X", "P", "I", "R", "E">>,
         <<"P", "e", "x", "p", "i", "r", "e">>,
         <<"P", "E", "x", "p", "i", "r", "e">>,
         <<"p", "e", "x", "p", "i", "r", "e">>},
     Get |->
        {<<"G", "E", "T">>,
         <<"g", "e", "t">>,
         <<"G", "e", "t">>},
     GetSet |->
        {<<"G", "E", "T", "S", "E", "T">>,
         <<"g", "e", "t", "s", "e", "t">>,
         <<"G", "e", "t", "s", "e", "t">>,
         <<"G", "e", "t", "S", "e", "t">>},
     MGet |->
        {<<"M", "G", "E", "T">>,
         <<"m", "g", "e", "t">>,
         <<"M", "G", "e", "t">>},
     Del |->
        {<<"D", "E", "L">>,
         <<"d", "e", "l">>,
         <<"D", "e", "l">>},
     Incr |->
        {<<"I", "N", "C", "R">>,
         <<"i", "n", "c", "r">>,
         <<"I", "n", "c", "r">>},
     Exists |->
        {<<"E", "X", "I", "S", "T", "S">>,
         <<"e", "x", "i", "s", "t", "s">>,
         <<"E", "x", "i", "s", "t", "s">>},
     Info |->
        {<<"I", "N", "F", "O">>,
         <<"i", "n", "f", "o">>,
         <<"I", "n", "f", "o">>},
     Ping |->
        {<<"P", "I", "N", "G">>,
         <<"p", "i", "n", "g">>,
         <<"P", "i", "n", "g">>},
     Quit |->
        {<<"Q", "U", "I", "T">>,
         <<"q", "u", "i", "t">>,
         <<"Q", "u", "i", "t">>}]

\* Command::parse, at clock t (an Expiry is built while parsing).
parse(v, t) ==
    IF Len(v) = 0 \/ v[1].t # "bulk" THEN ParseErr(InvalidCommand)
    ELSE LET command == v[1].b IN
    CASE command \in Keywords.Set -> Result(ErrKV(v), Set(v[2].b, v[3].b))
      [] command \in Keywords.Setex ->
            Result(ErrKDV(v), Setex(v[2].b, new_from_secs(parse_duration(v[3].b), t), v[4].b))
      [] command \in Keywords.PSetex ->
            Result(ErrKDV(v), PSetex(v[2].b, new_from_millis(parse_duration(v[3].b), t), v[4].b))
      [] command \in Keywords.MSet -> Result(ErrPairs(v), MSet(PairsOf(v)))
      [] command \in Keywords.MSetnx -> Result(ErrPairs(v), MSetnx(PairsOf(v)))
      [] command \in Keywords.Setnx -> Result(ErrKV(v), Setnx(v[2].b, v[3].b))
      [] command \in Keywords.Expire ->
            Result(ErrKD(v), Expire(v[2].b, new_from_secs(parse_duration(v[3].b), t)))
      [] command \in Keywords.PExpire ->
            Result(ErrKD(v), PExpire(v[2].b, new_from_millis(parse_duration(v[3].b), t)))
      [] command \in Keywords.Get -> Result(ErrK(v), Get(v[2].b))
      [] command \in Keywords.GetSet -> Result(ErrKV(v), GetSet(v[2].b, v[3].b))
      [] command \in Keywords.MGet -> Result(ErrKeys(v), MGet(KeysOf(v)))
      [] command \in Keywords.Del -> Result(ErrK(v), Del(v[2].b))
      [] command \in Keywords.Incr -> Result(ErrK(v), Incr(v[2].b))
      [] command \in Keywords.Exists -> Result(ErrK(v), Exists(v[2].b))
      [] command \in Keywords.Info -> ParseOkCmd(Info)
      [] command \in Keywords.Ping -> ParseOkCmd(Ping)
      [] command \in Keywords.Quit -> ParseOkCmd(Quit)
      [] OTHER -> IF IsUtf8(command) THEN ParseErr(NotSupported(command)) ELSE ParsePanic

(***************************************************************************)
(* The arms of run_command_and_get_response, one storage call at a time.   *)
(* Arm(c, i, a, s, t): call number i of command c, with the arm's locals a *)
(* (the response or the value built so far), on storage s at clock t.      *)
(* The outcome is "more" (another call follows under the same guard),      *)
(* "done" (the arm yields resp) or "panic" (an unwrap() fails: the arm     *)
(* unwinds and yields nothing).                                            *)
(***************************************************************************)
More(s, a) == [st |-> s, acc |-> a, out |-> "more", resp |-> NoResp]
Done(s, r) == [st |-> s, acc |-> <<>>, out |-> "done", resp |-> r]
Panic(s) == [st |-> s, acc |-> <<>>, out |-> "panic", resp |-> NoResp]
\* int_val += 1 at i64::MAX: the addition overflows.
Overflow(s) == [st |-> s, acc |-> I64_MIN, out |-> "overflow", resp |-> NoResp]

\* What the build makes of an outcome: with overflow checks (the debug
\* profile) the overflowing addition panics, without them (the release
\* profile) it wraps to i64::MIN and the arm goes on.
Builds(r) ==
    IF r.out = "overflow" THEN {Panic(r.st), More(r.st, r.acc)} ELSE {r}

ArmSet(c, i, a, s, t) == Done(write(s, c.k, c.v), OK)

ArmSetex(c, i, a, s, t) ==
    IF i = 1 THEN More(write(s, c.k, c.v), a)
    ELSE Done(expire(s, c.k, c.e, t)[1], OK)

\* ArmSetnx without its match on contains: the key is written whether it
\* exists or not.  C7_Setnx tells the two apart.
ArmSetnxAlways(c, i, a, s, t) ==
    IF i = 1 THEN More(contains(s, c.k, t)[1], a)
    ELSE Done(write(s, c.k, c.v), IntReply(1))

ArmSetnx(c, i, a, s, t) ==
    IF i = 1 THEN
        LET r == contains(s, c.k, t) IN
        IF r[2] THEN Done(r[1], IntReply(0)) ELSE More(r[1], a)
    ELSE Done(write(s, c.k, c.v), IntReply(1))

ArmMSet(c, i, a, s, t) ==
    LET w == write(s, c.items[i][1], c.items[i][2]) IN
    IF i < Len(c.items) THEN More(w, a) ELSE Done(w, OK)

\* ArmMSetnx with any() for all(): the batch is refused only when every key
\* exists.  C4_MSetnx tells the two apart.
ArmMSetnxAny(c, i, a, s, t) ==
    LET n == Len(c.items) IN
    IF i <= n THEN
        LET r == contains(s, c.items[i][1], t) IN
        IF r[2] /\ i = n THEN Done(r[1], IntReply(0)) ELSE More(r[1], a)
    ELSE
        LET w == write(s, c.items[i - n][1], c.items[i - n][2]) IN
        IF i < 2 * n THEN More(w, a) ELSE Done(w, IntReply(1))

ArmMSetnx(c, i, a, s, t) ==
    LET n == Len(c.items) IN
    IF i <= n THEN
        LET r == contains(s, c.items[i][1], t) IN
        IF r[2] THEN Done(r[1], IntReply(0)) ELSE More(r[1], a)
    ELSE
        LET w == write(s, c.items[i - n][1], c.items[i - n][2]) IN
        IF i < 2 * n THEN More(w, a) ELSE Done(w, IntReply(1))

\* ArmExpire that replies 1 whatever expire returns.  C11_Expire tells the
\* two apart.
ArmExpireOne(c, i, a, s, t) ==
    LET r == expire(s, c.k, c.e, t) IN Done(r[1], IntReply(1))

ArmExpire(c, i, a, s, t) ==
    LET r == expire(s, c.k, c.e, t) IN Done(r[1], IntReply(r[2]))

ArmGet(c, i, a, s, t) ==
    LET r == read(s, c.k, t) IN
    IF r[2] THEN (IF IsUtf8(r[3]) THEN Done(r[1], TextReply(r[3])) ELSE Panic(r[1]))
    ELSE Done(r[1], NIL)

ArmGetSet(c, i, a, s, t) ==
    IF i = 1 THEN
        LET r == read(s, c.k, t) IN
        IF r[2] THEN (IF IsUtf8(r[3]) THEN More(r[1], TextReply(r[3])) ELSE Panic(r[1]))
        ELSE More(r[1], NIL)
    ELSE Done(write(s, c.k, c.v), a)

ArmMGet(c, i, a, s, t) ==
    LET r == read(s, c.keys[i], t)
        sofar == IF i = 1 THEN ArrayHeader(Len(c.keys)) ELSE a
        line == IF r[2] THEN TextReply(r[3]) ELSE NIL
    IN  IF r[2] /\ ~IsUtf8(r[3]) THEN Panic(r[1])
        ELSE IF i < Len(c.keys) THEN More(r[1], sofar \o line)
        ELSE Done(r[1], sofar \o line)

\* ArmDel that counts the key and leaves it in the storage.  C10_Del tells
\* the two apart.
ArmDelKeep(c, i, a, s, t) ==
    LET r == remove(s, c.k) IN Done(s, IntReply(r[2]))

ArmDel(c, i, a, s, t) ==
    LET r == remove(s, c.k) IN Done(r[1], IntReply(r[2]))

\* ArmIncr without int_val += 1.  C8_IncrCounts tells the two apart.
ArmIncrSame(c, i, a, s, t) ==
    IF i = 1 THEN
        LET r == read(s, c.k, t) IN
        IF r[2] THEN
            IF ~IsUtf8(r[3]) THEN Panic(r[1])
            ELSE IF ParseOk(r[3]) THEN More(r[1], to_string(ParseI64(r[3])))
            ELSE Done(r[1], WRONGTYPE)
        ELSE More(r[1], <<"1">>)
    ELSE Done(write(s, c.k, a), <<":">> \o a \o CRLF)

ArmIncr(c, i, a, s, t) ==
    IF i = 1 THEN
        LET r == read(s, c.k, t) IN
        IF r[2] THEN
            IF ~IsUtf8(r[3]) THEN Panic(r[1])
            ELSE IF ParseOk(r[3]) THEN
                IF IsI64Max(r[3]) THEN Overflow(r[1])
                ELSE More(r[1], to_string(ParseI64(r[3]) + 1))
            ELSE Done(r[1], WRONGTYPE)
        ELSE More(r[1], <<"1">>)
    ELSE Done(write(s, c.k, a), <<":">> \o a \o CRLF)

\* ArmExists that looks at the entry and not at its Expiry.
\* C6_LazyExpiration tells the two apart.
ArmExistsRaw(c, i, a, s, t) ==
    Done(s, IntReply(IF s[c.k].present THEN 1 ELSE 0))

ArmExists(c, i, a, s, t) ==
    LET r == contains(s, c.k, t) IN Done(r[1], IntReply(IF r[2] THEN 1 ELSE 0))

\* The match on the parsed command, for the variants that use the storage.
Arm(c, i, a, s, t) ==
    CASE c.op = "Set" -> ArmSet(c, i, a, s, t)
      [] c.op \in {"Setex", "PSetex"} -> ArmSetex(c, i, a, s, t)
      [] c.op = "Setnx" -> ArmSetnx(c, i, a, s, t)
      [] c.op = "MSet" -> ArmMSet(c, i, a, s, t)
      [] c.op = "MSetnx" -> ArmMSetnx(c, i, a, s, t)
      [] c.op \in {"Expire", "PExpire"} -> ArmExpire(c, i, a, s, t)
      [] c.op = "Get" -> ArmGet(c, i, a, s, t)
      [] c.op = "GetSet" -> ArmGetSet(c, i, a, s, t)
      [] c.op = "MGet" -> ArmMGet(c, i, a, s, t)
      [] c.op = "Del" -> ArmDel(c, i, a, s, t)
      [] c.op = "Incr" -> ArmIncr(c, i, a, s, t)
      [] c.op = "Exists" -> ArmExists(c, i, a, s, t)

\* The arms that use no storage.
PlainReply(c) ==
    CASE c.op = "Info" -> EMPTY_LIST
      [] c.op = "Ping" -> PONG
      [] c.op = "Quit" -> OK

\* A guard taken again for each storage call of Incr and GetSet, as if each
\* call were lock_then_release(storage).<call>.  C2_Atomic tells it from GuardKept.
GuardDroppedAfterRead(c, i) == c.op \notin {"Incr", "GetSet"}

\* A guard taken again for each write of a batch.  C3_BatchAtomic tells it
\* from GuardKept.
GuardDroppedInBatch(c, i) == c.op \notin {"MSet", "MSetnx"}

\* A guard taken again for the expire of Setex / PSetex.  C19_SetexAtomic
\* tells it from GuardKept.
GuardDroppedInSetex(c, i) == c.op \notin {"Setex", "PSetex"}

\* Whether the guard taken by lock_then_release is still held after call i
\* of the arm: every arm takes it once and keeps it to its end.
GuardKept(c, i) == TRUE

(***************************************************************************)
(* The requests the handlers receive.                                      *)
(***************************************************************************)
Handlers == {1, 2}
Durations == 0..MaxDur
DurText(d) == to_string(d)

Batches ==
    { <<K1, VText>>,
      <<K1, VText, K2, VNum>>,
      <<K2, VNum, K1, VNum>>,
      <<K1, VText, K1, VNum>> }
KeyLists == { <<K1, K2>>, <<K2, K1, K1>> }

Req(name, args) == <<Bulk(name)>> \o [i \in 1..Len(args) |-> Bulk(args[i])]

\* Letter case of the bytes of a keyword.
UpperLetters ==
    <<"A", "B", "C", "D", "E", "F", "G", "H", "I", "J", "K", "L", "M",
      "N", "O", "P", "Q", "R", "S", "T", "U", "V", "W", "X", "Y", "Z">>
LowerLetters ==
    <<"a", "b", "c", "d", "e", "f", "g", "h", "i", "j", "k", "l", "m",
      "n", "o", "p", "q", "r", "s", "t", "u", "v", "w", "x", "y", "z">>
UpperByte(c) ==
    IF \E i \in 1..26 : LowerLetters[i] = c
    THEN UpperLetters[CHOOSE i \in 1..26 : LowerLetters[i] = c] ELSE c
LowerByte(c) ==
    IF \E i \in 1..26 : UpperLetters[i] = c
    THEN LowerLetters[CHOOSE i \in 1..26 : UpperLetters[i] = c] ELSE c
ToUpper(b) == [i \in 1..Len(b) |-> UpperByte(b[i])]
ToLower(b) == [i \in 1..Len(b) |-> LowerByte(b[i])]

\* The canonical (upper-case) keyword of each command.
Canon ==
    [Set |-> <<"S", "E", "T">>, Setex |-> <<"S", "E", "T", "E", "X">>,
     PSetex |-> <<"P", "S", "E", "T", "E", "X">>, MSet |-> <<"M", "S", "E", "T">>,
     MSetnx |-> <<"M", "S", "E", "T", "N", "X">>, Setnx |-> <<"S", "E", "T", "N", "X">>,
     Expire |-> <<"E", "X", "P", "I", "R", "E">>,
     PExpire |-> <<"P", "E", "X", "P", "I", "R", "E">>, Get |-> <<"G", "E", "T">>,
     GetSet |-> <<"G", "E", "T", "S", "E", "T">>, MGet |-> <<"M", "G", "E", "T">>,
     Del |-> <<"D", "E", "L">>, Incr |-> <<"I", "N", "C", "R">>,
     Exists |-> <<"E", "X", "I", "S", "T", "S">>, Info |-> <<"I", "N", "F", "O">>,
     Ping |-> <<"P", "I", "N", "G">>, Quit |-> <<"Q", "U", "I", "T">>]
FOO == <<"F", "O", "O">>

\* One handler: the commands on K1 in full, on K2 in part.
FullRequests ==
    {Req(Canon.Set, <<K1, v>>) : v \in Values}
    \cup {Req(ToLower(Canon.Setnx), <<K1, VText>>),
          Req(Canon.Setex, <<K1, DurText(MaxDur), VText>>)}
    \cup {Req(<<"P", "S", "e", "t", "E", "x">>, <<K1, DurText(d), VNum>>) : d \in Durations}
    \cup {Req(ToLower(Canon.PSetex), <<K1, DurText(MaxDur), VBin>>)}
    \cup {Req(Canon.PExpire, <<k, DurText(d)>>) : k \in Keys, d \in Durations}
    \cup {Req(<<"E", "x", "p", "i", "r", "e">>, <<K1, DurText(MaxDur)>>),
          Req(<<"G", "e", "t", "S", "e", "t">>, <<K1, VText>>)}
    \cup {Req(Canon.Get, <<K1>>), Req(Canon.Del, <<K1>>), Req(ToLower(Canon.Incr), <<K1>>),
          Req(Canon.Exists, <<K1>>)}
    \cup {Req(ToLower(Canon.Set), <<K2, VText>>), Req(ToLower(Canon.Get), <<K2>>),
          Req(ToLower(Canon.Del), <<K2>>)}
    \cup {Req(Canon.MSet, b) : b \in Batches}
    \cup {Req(Canon.MSetnx, b) : b \in Batches}
    \cup {Req(Canon.MGet, ks) : ks \in KeyLists}
    \cup {Req(Canon.Ping, <<>>), Req(FOO, <<K1>>)}

\* With several handlers at once: the commands whose interleavings matter.
SharedRequests ==
    {Req(ToLower(Canon.Incr), <<K1>>), Req(Canon.GetSet, <<K1, VText>>), Req(Canon.Get, <<K1>>),
     Req(Canon.MSet, <<K1, VText, K2, VText>>), Req(Canon.MSetnx, <<K1, VNum, K2, VNum>>),
     Req(Canon.MGet, <<K1, K2>>), Req(Canon.Exists, <<K2>>), Req(Canon.Del, <<K1>>)}

\* One handler, the parser's cases: requests that are no command, keywords
\* in other letter cases, keywords that are no text, arguments missing or
\* malformed, and the commands that use no storage.
MixedCase == {<<"g", "E", "T">>, <<"s", "E", "t">>, <<"p", "I", "N", "G">>}
EdgeRequests ==
    {<<>>, <<NotBulk>>, <<NotBulk, Bulk(K1)>>}
    \cup {Req(FOO, <<K1>>), Req(ToLower(FOO), <<>>), Req(<<BadByte>>, <<K1>>),
          Req(<<"G", BadByte>>, <<K1>>)}
    \cup {Req(kw, <<K1, VText>>) : kw \in MixedCase}
    \cup {Req(Canon.Set, <<K1, VText>>), Req(Canon.Get, <<K1>>), Req(Canon.Del, <<K1>>)}
    \cup {Req(Canon.Set, <<K1, v>>) : v \in {I64_MAX, VNum}}
    \cup {Req(Canon.Incr, <<K1>>)}
    \cup {Req(Canon.MGet, <<>>), Req(Canon.Get, <<>>), Req(Canon.MSet, <<K1>>),
          Req(Canon.Set, <<K1>>), Req(Canon.Setex, <<K1, VText, VText>>),
          Req(Canon.PExpire, <<K1>>), <<Bulk(Canon.Get), NotBulk>>}
    \cup {Req(Canon.Info, <<>>), Req(Canon.Ping, <<>>), Req(Canon.Quit, <<>>)}

\* Several handlers, values of any bytes: what a command that unwinds leaves
\* to the others.
LiveRequests ==
    {Req(Canon.Set, <<K1, v>>) : v \in {VText, VBin}}
    \cup {Req(Canon.Get, <<K1>>), Req(Canon.GetSet, <<K1, VText>>), Req(Canon.Exists, <<K1>>)}

\* Several handlers on one key: Setex / PSetex and the commands that read or
\* change the key it writes.
SetexRequests ==
    {Req(Canon.Setex, <<K1, DurText(MaxDur), VNum>>),
     Req(Canon.PSetex, <<K1, DurText(MaxDur), VNum>>),
     Req(Canon.Get, <<K1>>), Req(Canon.MGet, <<K1>>), Req(Canon.Exists, <<K1>>),
     Req(Canon.PExpire, <<K1, DurText(0)>>), Req(Canon.Del, <<K1>>),
     Req(ToLower(Canon.Incr), <<K1>>), Req(Canon.GetSet, <<K1, VNum>>),
     Req(Canon.Setnx, <<K1, VNum>>)}

\* The handlers that serve a connection and the requests they receive.
ConnsOf(m) == IF m \in {"single", "edge"} THEN {1} ELSE Handlers
RequestsOf(m) ==
    CASE m = "single" -> FullRequests
      [] m = "shared" -> SharedRequests
      [] m = "edge" -> EdgeRequests
      [] m = "live" -> LiveRequests
      [] m = "setex" -> SetexRequests

(***************************************************************************)
(* State.                                                                  *)
(***************************************************************************)
VARIABLES
    mode,       \* which handlers serve, and with which requests
    data,       \* the storage behind the mutex: Key -> entry
    now,        \* the clock
    lock,       \* the handler holding the guard, 0 when the mutex is free
    poisoned,   \* a handler unwound while holding the guard
    pc,         \* where each handler is
    req,        \* the request each handler received last
    cmd,        \* the command each handler parsed
    ix,         \* the storage call of the arm it is at
    acc,        \* the locals of the arm
    resp,       \* the response it produced
    pin         \* history: what the last command that changed each key left

vars == <<mode, data, now, lock, poisoned, pc, req, cmd, ix, acc, resp, pin>>

(***************************************************************************)
(* History of each key, for the properties: the last command that could    *)
(* change the key and what it left there.  "absent": nothing has written   *)
(* the key yet; "del": a Del (n = 1 when a Del since the last write has    *)
(* removed the key); "set": a Set of v; "setex": a Setex/PSetex   *)
(* of v with Expiry e; "incr": n Incr in a row from absence; "expire": an   *)
(* Expire / PExpire that replied 1 on a key a Setex had left with another  *)
(* Expiry;                                                                 *)
(* "none":                                                                 *)
(* anything else, or a "set" whose key has since expired.                  *)
(***************************************************************************)
Pin(kind, v, e, n) == [kind |-> kind, v |-> v, e |-> e, n |-> n]
NoPin == Pin("none", <<>>, NoExpiry, 0)
PinAbsent == Pin("absent", <<>>, NoExpiry, 0)

\* Command c can change key k.
Mutates(c, k) ==
    \/ c.op \in {"Set", "Setnx", "Setex", "PSetex", "Expire", "PExpire", "GetSet",
                 "Del", "Incr"} /\ c.k = k
    \/ c.op \in {"MSet", "MSetnx"} /\ \E i \in 1..Len(c.items) : c.items[i][1] = k

\* The history of k after a storage call of command c with outcome r.
NewPin(k, c, r, p) ==
    IF ~Mutates(c, k) \/ r.out = "more" THEN p
    ELSE IF r.out = "panic" THEN NoPin
    ELSE CASE c.op = "Set" -> Pin("set", c.v, NoExpiry, 0)
           [] c.op \in {"Setex", "PSetex"} -> Pin("setex", c.v, c.e, 0)
           [] c.op = "Del" ->
                Pin("del", <<>>, NoExpiry,
                    IF r.resp = IntReply(1) \/ (p.kind = "del" /\ p.n = 1) THEN 1 ELSE 0)
           [] c.op = "Incr" /\ r.resp # WRONGTYPE /\ p.kind \in {"absent", "del"} ->
                Pin("incr", <<>>, NoExpiry, 1)
           [] c.op = "Incr" /\ r.resp # WRONGTYPE /\ p.kind = "incr" ->
                Pin("incr", <<>>, NoExpiry, p.n + 1)
           [] c.op \in {"Expire", "PExpire"} /\ r.resp = IntReply(1)
                /\ p.kind = "setex" /\ p.e # c.e ->
                Pin("expire", <<>>, NoExpiry, 0)
           [] OTHER -> NoPin

\* The history of k when the clock leaves t: a key that was Set expires
\* when the Expiry it carries elapses.
LapsedPin(k, s, t, p) ==
    IF p.kind = "set" /\ s[k].present /\ s[k].exp = t THEN NoPin ELSE p

InitWith(m) ==
    /\ mode = m
    /\ data = [k \in Keys |-> NoEntry]
    /\ now = 0
    /\ lock = 0
    /\ poisoned = FALSE
    /\ pc = [h \in Handlers |-> "idle"]
    /\ req = [h \in Handlers |-> <<>>]
    /\ cmd = [h \in Handlers |-> NoCmd]
    /\ ix = [h \in Handlers |-> 0]
    /\ acc = [h \in Handlers |-> <<>>]
    /\ resp = [h \in Handlers |-> NoResp]
    /\ pin = [k \in Keys |-> PinAbsent]

Init == InitWith("single")
InitShared == InitWith("shared")
InitEdge == InitWith("edge")
InitLive == InitWith("live")
InitSetex == InitWith("setex")

\* The bound on the integers Incr reaches: the small ones, and i64::MAX.
IncrBounded(c) ==
    c.op = "Incr" /\ data[c.k].present /\ ParseOk(data[c.k].val)
        => \/ IsI64Max(data[c.k].val)
           \/ /\ Len(data[c.k].val) < Len(I64MaxDigits)
              /\ ParseI64(data[c.k].val) < MaxIncr

\* run_command_and_get_response up to its first storage call: get_command,
\* then the arms that use no storage and the Err arm answer at once.
Receive(h) ==
    /\ h \in ConnsOf(mode)
    /\ pc[h] \in {"idle", "reply"}
    /\ \E r \in RequestsOf(mode) :
        LET p == parse(r, now) IN
        /\ IncrBounded(p.cmd)
        /\ req' = [req EXCEPT ![h] = r]
        /\ cmd' = [cmd EXCEPT ![h] = p.cmd]
        /\ acc' = [acc EXCEPT ![h] = <<>>]
        /\ IF p.panic
           THEN /\ pc' = [pc EXCEPT ![h] = "panicked"]
                /\ ix' = [ix EXCEPT ![h] = 0]
                /\ resp' = [resp EXCEPT ![h] = NoResp]
           ELSE IF p.ok /\ p.cmd.op \in StorageOps
           THEN /\ pc' = [pc EXCEPT ![h] = "acquire"]
                /\ ix' = [ix EXCEPT ![h] = 1]
                /\ resp' = [resp EXCEPT ![h] = NoResp]
           ELSE /\ pc' = [pc EXCEPT ![h] = "reply"]
                /\ ix' = [ix EXCEPT ![h] = 0]
                /\ resp' = [resp EXCEPT ![h] =
                                IF p.ok THEN PlainReply(p.cmd) ELSE ErrReply(p.err)]
    /\ UNCHANGED <<mode, data, now, lock, poisoned, pin>>

\* lock_then_release: the guard, once the mutex is free.  From a poisoned
\* mutex no guard is ever obtained.
lock_then_release(h) ==
    /\ pc[h] = "acquire"
    /\ lock = 0
    /\ IF poisoned
       THEN pc' = [pc EXCEPT ![h] = "stuck"] /\ lock' = lock
       ELSE pc' = [pc EXCEPT ![h] = "body"] /\ lock' = h
    /\ UNCHANGED <<mode, data, now, poisoned, req, cmd, ix, acc, resp, pin>>

\* One storage call of the arm, under the guard; after the last one the
\* guard is dropped and the response returned.
Step(h) ==
    /\ pc[h] = "body"
    /\ lock = h
    /\ \E r \in Builds(Arm(cmd[h], ix[h], acc[h], data, now)) :
        /\ data' = r.st
        /\ acc' = [acc EXCEPT ![h] = r.acc]
        /\ resp' = [resp EXCEPT ![h] = r.resp]
        /\ pin' = [k \in Keys |-> NewPin(k, cmd[h], r, pin[k])]
        /\ CASE r.out = "more" ->
                    /\ ix' = [ix EXCEPT ![h] = ix[h] + 1]
                    /\ IF GuardKept(cmd[h], ix[h])
                       THEN pc' = pc /\ lock' = lock
                       ELSE pc' = [pc EXCEPT ![h] = "acquire"] /\ lock' = 0
                    /\ poisoned' = poisoned
             [] r.out = "done" ->
                    /\ ix' = [ix EXCEPT ![h] = 0]
                    /\ pc' = [pc EXCEPT ![h] = "reply"]
                    /\ lock' = 0
                    /\ poisoned' = poisoned
             [] r.out = "panic" ->
                    /\ ix' = [ix EXCEPT ![h] = 0]
                    /\ pc' = [pc EXCEPT ![h] = "panicked"]
                    /\ lock' = 0
                    /\ poisoned' = TRUE
    /\ UNCHANGED <<mode, now, req, cmd>>

\* Time passes.
Tick ==
    /\ now < MaxTime
    /\ now' = now + 1
    /\ pin' = [k \in Keys |-> LapsedPin(k, data, now, pin[k])]
    /\ UNCHANGED <<mode, data, lock, poisoned, pc, req, cmd, ix, acc, resp>>

Next ==
    \/ \E h \in Handlers : Receive(h)
    \/ \E h \in Handlers : lock_then_release(h)
    \/ \E h \in Handlers : Step(h)
    \/ Tick

Spec == Init /\ [][Next]_vars
SpecShared == InitShared /\ [][Next]_vars
SpecEdge == InitEdge /\ [][Next]_vars
SpecSetex == InitSetex /\ [][Next]_vars

\* Fair scheduling: a handler that waits for the mutex gets it if it is free
\* again and again, and a handler that holds the guard goes on.
Fairness ==
    \A h \in Handlers : SF_vars(lock_then_release(h)) /\ WF_vars(Step(h))
SpecLive == InitLive /\ [][Next]_vars /\ Fairness

(***************************************************************************)
(* Properties.                                                             *)
(***************************************************************************)
\* Handler h makes a storage call in this step.
StepOf(h) == pc[h] = "body" /\ ix'[h] # ix[h]
\* ... and the call ends the command with response r.
Replies(h, r) == pc'[h] = "reply" /\ resp'[h] = r

\* The value the last pair for key k of a batch carries.
LastValue(items, k) ==
    LET i == CHOOSE i \in 1..Len(items) :
                 items[i][1] = k /\ \A j \in (i + 1)..Len(items) : items[j][1] # k
    IN items[i][2]

\* A handler that is between the first and the last storage call of its command.
MidCommand(g) == ix[g] > 1

\* C1: once Set(k, v) has replied OK, every Get(k) replies v until k is
\* overwritten, deleted or expired, whatever k held before the Set.
C1_SetThenGet ==
    [][\A h \in Handlers :
        (StepOf(h) /\ cmd[h].op = "Get" /\ pin[cmd[h].k].kind = "set")
            => Replies(h, TextReply(pin[cmd[h].k].v))]_vars

\* C2: commands are atomic with respect to each other: no handler makes a
\* storage call while another is between two calls of its command; the value an
\* Incr writes is one more than the value stored when it writes, n Incr from
\* absence reply 1..n, and a GetSet replies the value it overwrites.
C2_Atomic ==
    [][\A h \in Handlers : StepOf(h) =>
        LET c == cmd[h]
            cur == data[c.k]
        IN
        /\ \A g \in Handlers \ {h} : ~MidCommand(g)
        /\ (c.op = "Incr" /\ ix[h] = 2) =>
              /\ IF cur.present
                 THEN ParseOk(cur.val) /\ acc[h] = to_string(ParseI64(cur.val) + 1)
                 ELSE acc[h] = <<"1">>
              /\ Replies(h, <<":">> \o acc[h] \o CRLF)
              /\ data'[c.k].val = acc[h]
              /\ pin[c.k].kind \in {"absent", "del"} => acc[h] = <<"1">>
              /\ pin[c.k].kind = "incr" => acc[h] = to_string(pin[c.k].n + 1)
        /\ (c.op = "GetSet" /\ ix[h] = 2) =>
              /\ acc[h] = IF cur.present THEN TextReply(cur.val) ELSE NIL
              /\ Replies(h, acc[h])
              /\ data'[c.k].val = c.v]_vars

\* C2, its case: an Incr of K1 holds the guard, between its read and its
\* write, while another handler's Incr of K1 waits for the mutex.
C2_Witness ==
    \E h, g \in Handlers :
        /\ h # g
        /\ pc[h] = "body" /\ cmd[h] = Incr(K1) /\ ix[h] = 2
        /\ pc[g] = "acquire" /\ cmd[g] = Incr(K1)
        /\ pin[K1].kind = "incr"

\* A handler whose MSet / MSetnx has written some of its pairs and not all.
PartlyWritten(g) ==
    \/ cmd[g].op = "MSet" /\ 1 < ix[g] /\ ix[g] <= Len(cmd[g].items)
    \/ cmd[g].op = "MSetnx" /\ Len(cmd[g].items) + 1 < ix[g]
                            /\ ix[g] <= 2 * Len(cmd[g].items)

\* C3: no Get, MGet or Exists reads the storage while another handler's MSet
\* or MSetnx has written some of its pairs and not yet all, and when the batch
\* command ends having written, every pair of the batch is in the storage.
C3_BatchAtomic ==
    [][\A h \in Handlers : StepOf(h) =>
        LET c == cmd[h] IN
        /\ c.op \in {"Get", "MGet", "Exists"} =>
              \A g \in Handlers \ {h} : ~PartlyWritten(g)
        /\ (c.op \in {"MSet", "MSetnx"} /\ pc'[h] = "reply" /\ resp'[h] # IntReply(0)) =>
              \A i \in 1..Len(c.items) :
                  /\ data'[c.items[i][1]].present
                  /\ data'[c.items[i][1]].val = LastValue(c.items, c.items[i][1])]_vars

\* C3, its case: an MGet waits for the mutex while a batch is partly written.
C3_Witness ==
    \E h, g \in Handlers :
        /\ h # g
        /\ pc[g] = "body" /\ PartlyWritten(g)
        /\ pc[h] = "acquire" /\ cmd[h].op = "MGet"

\* C4: MSetnx replies 0 and changes nothing as soon as a key of the batch is
\* visible; while the keys are absent it changes nothing but the purge of an
\* elapsed entry, and having found them all absent it writes every pair and
\* replies 1; no other handler's storage call falls between its calls.
C4_MSetnx ==
    [][\A h \in Handlers : (StepOf(h) /\ cmd[h].op = "MSetnx") =>
        LET c == cmd[h]
            n == Len(c.items)
            i == ix[h]
        IN
        /\ \A g \in Handlers \ {h} : ~MidCommand(g)
        /\ i <= n =>
              LET k == c.items[i][1] IN
              IF Visible(data, k, now)
              THEN Replies(h, IntReply(0)) /\ data' = data
              ELSE /\ pc'[h] = "body"
                   /\ data' = [data EXCEPT ![k] = NoEntry]
        /\ i > n =>
              /\ \A j \in Keys : (\A m \in 1..n : c.items[m][1] # j) => data'[j] = data[j]
              /\ IF i < 2 * n THEN pc'[h] = "body"
                 ELSE /\ Replies(h, IntReply(1))
                      /\ \A m \in 1..n :
                            /\ data'[c.items[m][1]].present
                            /\ data'[c.items[m][1]].val = LastValue(c.items, c.items[m][1])]_vars

\* C4, its case: an MSetnx has replied 0 with the second key of its batch
\* visible and the first one absent.
C4_Witness ==
    \E h \in Handlers :
        /\ pc[h] = "reply" /\ cmd[h].op = "MSetnx" /\ resp[h] = IntReply(0)
        /\ ~data[cmd[h].items[1][1]].present
        /\ Visible(data, cmd[h].items[2][1], now)

\* C5: after Setex / PSetex(k, d, v) has replied OK, Get(k) replies v at every
\* moment before the new expiry instant and nil once it has passed, whatever k
\* held before.
C5_SetexThenGet ==
    [][\A h \in Handlers :
        (StepOf(h) /\ cmd[h].op = "Get" /\ pin[cmd[h].k].kind = "setex") =>
            LET p == pin[cmd[h].k] IN
            /\ now < p.e => Replies(h, TextReply(p.v))
            /\ now > p.e => Replies(h, NIL)]_vars

\* C6: a key whose Expiry has elapsed is absent to every read-type call,
\* purged or not: Get and GetSet reply nil, MGet yields the nil placeholder,
\* Exists replies 0, Setnx and MSetnx go on to write, Incr writes "1" and
\* replies 1.
C6_LazyExpiration ==
    [][\A h \in Handlers : StepOf(h) =>
        LET c == cmd[h]
            i == ix[h]
            gone(k) == IsExpired(data[k], now)
        IN
        /\ (c.op = "Get" /\ gone(c.k)) => Replies(h, NIL)
        /\ (c.op = "GetSet" /\ i = 1 /\ gone(c.k)) => pc'[h] = "body" /\ acc'[h] = NIL
        /\ (c.op = "GetSet" /\ i = 2) => Replies(h, acc[h])
        /\ (c.op = "MGet" /\ gone(c.keys[i])) =>
              LET sofar == IF i = 1 THEN ArrayHeader(Len(c.keys)) ELSE acc[h] IN
              IF i < Len(c.keys) THEN pc'[h] = "body" /\ acc'[h] = sofar \o NIL
              ELSE Replies(h, sofar \o NIL)
        /\ (c.op = "Exists" /\ gone(c.k)) => Replies(h, IntReply(0))
        /\ (c.op = "Setnx" /\ i = 1 /\ gone(c.k)) => pc'[h] = "body"
        /\ (c.op = "Setnx" /\ i = 2) =>
              Replies(h, IntReply(1)) /\ data'[c.k] = Entry(c.v, data[c.k].exp)
        /\ (c.op = "MSetnx" /\ i <= Len(c.items) /\ gone(c.items[i][1])) => pc'[h] = "body"
        /\ (c.op = "Incr" /\ i = 1 /\ gone(c.k)) => pc'[h] = "body" /\ acc'[h] = <<"1">>
        /\ (c.op = "Incr" /\ i = 2) =>
              Replies(h, <<":">> \o acc[h] \o CRLF) /\ data'[c.k].val = acc[h]]_vars

\* C6, its case: a key written by Setex / PSetex whose Expiry has elapsed, not
\* touched since, and an Exists of it has replied 0.
C6_Witness ==
    \E h \in Handlers :
        /\ pc[h] = "reply" /\ cmd[h].op = "Exists" /\ resp[h] = IntReply(0)
        /\ pin[cmd[h].k].kind = "setex" /\ pin[cmd[h].k].e < now

\* C7: Setnx(k, v) on a visible key replies 0 and leaves the whole storage as
\* it was; on an absent key it does what Set(k, v) does and replies 1, and it
\* changes no other key.
C7_Setnx ==
    [][\A h \in Handlers : (StepOf(h) /\ cmd[h].op = "Setnx") =>
        LET c == cmd[h] IN
        IF ix[h] = 1
        THEN IF Visible(data, c.k, now)
             THEN Replies(h, IntReply(0)) /\ data' = data
             ELSE pc'[h] = "body" /\ data' = [data EXCEPT ![c.k] = NoEntry]
        ELSE /\ Replies(h, IntReply(1))
             /\ ~data[c.k].present
             /\ data' = ArmSet(Set(c.k, c.v), 1, <<>>, data, now).st
             /\ data' = [data EXCEPT ![c.k] = Entry(c.v, NoExpiry)]]_vars

\* C7, its case: a Setnx has replied 0 on a key that holds another value.
C7_Witness ==
    \E h \in Handlers :
        /\ pc[h] = "reply" /\ cmd[h].op = "Setnx" /\ resp[h] = IntReply(0)
        /\ Visible(data, cmd[h].k, now) /\ data[cmd[h].k].val # cmd[h].v

\* C8: Incr of an absent key writes "1" and replies 1; the n-th Incr in a row
\* from absence replies n and leaves the decimal text of n.
C8_IncrCounts ==
    [][\A h \in Handlers : (StepOf(h) /\ cmd[h].op = "Incr") =>
        LET p == pin[cmd[h].k]
            n == IF p.kind = "incr" THEN p.n + 1 ELSE 1
        IN  p.kind \in {"absent", "del", "incr"} =>
                IF ix[h] = 1 THEN pc'[h] = "body"
                ELSE /\ Replies(h, IntReply(n))
                     /\ data'[cmd[h].k] = Entry(to_string(n), NoExpiry)]_vars

\* C8, its case: the third Incr in a row from absence has replied 3.
C8_Witness ==
    \E h \in Handlers :
        /\ pc[h] = "reply" /\ cmd[h].op = "Incr" /\ resp[h] = IntReply(3)
        /\ pin[cmd[h].k] = Pin("incr", <<>>, NoExpiry, 3)
        /\ data[cmd[h].k].val = <<"3">>

\* The digits of d + 1, digit by digit.
RECURSIVE SuccDigits(_)
SuccDigits(d) ==
    IF Len(d) = 0 THEN <<"1">>
    ELSE IF d[Len(d)] = "9" THEN Append(SuccDigits(SubSeq(d, 1, Len(d) - 1)), "0")
    ELSE Append(SubSeq(d, 1, Len(d) - 1), Digits[DigitVal(d[Len(d)]) + 2])

\* The decimal text of n + 1, for the text s of the integer n.
Successor(s) ==
    IF s[1] = "-" THEN to_string(ParseI64(s) + 1)
    ELSE SuccDigits(StripZeros(IF s[1] = "+" THEN Tail(s) ELSE s))

\* C18: Incr of a key whose value parses as the signed 64-bit integer n,
\* i64::MAX included, does not abort and does not wrap: it computes n + 1,
\* writes its decimal text and replies with the same integer.
C18_IncrFullRange ==
    [][\A h \in Handlers : (StepOf(h) /\ cmd[h].op = "Incr") =>
        LET k == cmd[h].k IN
        IF ix[h] = 1
        THEN (Visible(data, k, now) /\ ParseOk(data[k].val)) =>
                /\ pc'[h] = "body"
                /\ acc'[h] = Successor(data[k].val)
        ELSE /\ Replies(h, <<":">> \o acc[h] \o CRLF)
             /\ data'[k].val = acc[h]]_vars

\* C9: Incr of a key whose value does not parse as a signed integer changes
\* nothing, replies the WRONGTYPE error and leaves later commands unaffected.
C9_IncrWrongType ==
    [][\A h \in Handlers :
        (StepOf(h) /\ cmd[h].op = "Incr" /\ ix[h] = 1
            /\ Visible(data, cmd[h].k, now) /\ ~ParseOk(data[cmd[h].k].val))
        => (Replies(h, WRONGTYPE) /\ data' = data /\ ~poisoned')]_vars

\* C10: Del(k) of a present key replies 1 and removes it, changing no other
\* key; a Del repeated with no write in between replies 0, and after a Del
\* Get(k) replies nil and Exists(k) replies 0.
C10_Del ==
    [][\A h \in Handlers : StepOf(h) =>
        LET c == cmd[h] IN
        /\ c.op = "Del" =>
              /\ data' = [data EXCEPT ![c.k] = NoEntry]
              /\ Visible(data, c.k, now) => Replies(h, IntReply(1))
              /\ pin[c.k].kind = "del" => Replies(h, IntReply(0))
        /\ (c.op = "Get" /\ pin[c.k].kind = "del") => Replies(h, NIL)
        /\ (c.op = "Exists" /\ pin[c.k].kind = "del") => Replies(h, IntReply(0))]_vars

\* C10, its case: a Del has removed the key and replied 1, and a second Del
\* with no write in between has replied 0.
C10_Witness ==
    \E h \in Handlers :
        /\ pc[h] = "reply" /\ cmd[h].op = "Del" /\ resp[h] = IntReply(0)
        /\ pin[cmd[h].k] = Pin("del", <<>>, NoExpiry, 1)

ReceiveOf(h) ==
    /\ pc[h] \in {"idle", "reply"}
    /\ <<pc'[h], req'[h], cmd'[h], resp'[h]>> # <<pc[h], req[h], cmd[h], resp[h]>>

\* The first token of request r is a bulk string.
Named(r) == Len(r) > 0 /\ r[1].t = "bulk"
\* ... and it is a supported keyword in some letter case.
IsKeyword(r) == Named(r) /\ \E op \in DOMAIN Canon : ToUpper(r[1].b) = Canon[op]
\* Request r with its keyword in upper case.
UpperReq(r) == [r EXCEPT ![1] = Bulk(ToUpper(r[1].b))]

\* C12: a request whose keyword is a supported keyword in any letter case
\* yields the Command, or the error reply, that the same request with the
\* keyword in upper case yields.
C12_CaseInsensitive ==
    [][\A h \in Handlers : (ReceiveOf(h) /\ IsKeyword(req'[h])) =>
        LET p == parse(UpperReq(req'[h]), now) IN
        /\ cmd'[h] = p.cmd
        /\ ~p.ok => Replies(h, ErrReply(p.err))
        /\ (p.ok /\ p.cmd.op \in StorageOps) => pc'[h] = "acquire"
        /\ (p.ok /\ p.cmd.op \notin StorageOps) => Replies(h, PlainReply(p.cmd))]_vars

\* C13: a request whose first token is a bulk string that is no supported
\* keyword, whatever its bytes, yields no Command and the -ERR reply of
\* NotSupported, which carries those bytes.
C13_NotSupported ==
    [][\A h \in Handlers : (ReceiveOf(h) /\ Named(req'[h]) /\ ~IsKeyword(req'[h])) =>
        /\ cmd'[h] = NoCmd
        /\ Replies(h, <<"-ERR", " ", "NotSupported", " ">> \o req'[h][1].b \o CRLF)]_vars

\* C14: a request whose parse fails yields an -ERR reply and no Command; the
\* handler does not go on to take the storage, and the storage and its mutex
\* are as they were.
C14_ParseFailure ==
    [][\A h \in Handlers : (ReceiveOf(h) /\ ~parse(req'[h], now).ok) =>
        /\ pc'[h] = "reply"
        /\ Len(resp'[h]) > 4 /\ SubSeq(resp'[h], 1, 2) = <<"-ERR", " ">>
        /\ SubSeq(resp'[h], Len(resp'[h]) - 1, Len(resp'[h])) = CRLF
        /\ cmd'[h] = NoCmd
        /\ data' = data /\ lock' = lock /\ poisoned' = poisoned]_vars

\* C15: no request is fatal: no handler unwinds out of a command, the mutex
\* is never left poisoned, and no handler is kept from the storage for good.
C15_NothingFatal ==
    /\ ~poisoned
    /\ \A h \in Handlers : pc[h] \notin {"panicked", "stuck"}

\* A response in the wire format: a type byte (+ : $ * -), and CRLF at the
\* end with nothing after it.
WireFormat(r) ==
    /\ Len(r) >= 3
    /\ r[1] \in {"+", ":", "$", "*", "-ERR", "-WRONGTYPE"}
    /\ SubSeq(r, Len(r) - 1, Len(r)) = CRLF

\* C16: every response a handler returns is in the wire format and ends
\* with CRLF.
C16_WireFormat ==
    \A h \in Handlers : pc[h] = "reply" => WireFormat(resp[h])

\* C17: a command takes the guard once and holds it from its first storage
\* call to its last, only the holder of the guard is inside its storage
\* logic, and under fair scheduling every command that has started completes
\* with a reply.
C17_LockOnceAndLive ==
    /\ [](\A h \in Handlers : pc[h] = "body" <=> lock = h)
    /\ [][\A h \in Handlers : pc[h] = "body" => pc'[h] # "acquire"]_vars
    /\ \A h \in Handlers : (pc[h] = "acquire") ~> (pc[h] = "reply")

\* A Setex / PSetex that has written its value and not yet attached its Expiry.
SetexHalfDone(g) == cmd[g].op \in {"Setex", "PSetex"} /\ ix[g] = 2

\* C19: the write and the expire of a Setex / PSetex are in one window of
\* exclusive access: no other handler's command (Get, MGet, Exists, Expire,
\* Del, Incr, GetSet, Setnx) makes a storage call while the value is written
\* and the Expiry not yet attached, and the expire finds the value the write
\* left.
C19_SetexAtomic ==
    [][\A h \in Handlers : StepOf(h) =>
        /\ \A g \in Handlers \ {h} : ~SetexHalfDone(g)
        /\ SetexHalfDone(h) => data[cmd[h].k].present /\ data[cmd[h].k].val = cmd[h].v]_vars

\* C19, its case: a command on the key waits for the mutex while another
\* handler's Setex / PSetex holds the guard between its write and its expire.
C19_Witness ==
    \E h, g \in Handlers :
        /\ h # g
        /\ pc[g] = "body" /\ lock = g /\ SetexHalfDone(g)
        /\ data[cmd[g].k].val = cmd[g].v /\ data[cmd[g].k].exp # cmd[g].e
        /\ pc[h] = "acquire" /\ cmd[h].k = cmd[g].k
        /\ cmd[h].op \in {"Get", "Exists", "PExpire", "Del", "Incr", "GetSet", "Setnx"}

\* C20: Del(k) replies 1 exactly when Exists(k), run just before it, would
\* reply 1: on a key whose Expiry has elapsed, purged or not, Del replies 0.
C20_DelAsExists ==
    [][\A h \in Handlers : (StepOf(h) /\ cmd[h].op = "Del") =>
        Replies(h, ArmExists(Exists(cmd[h].k), 1, <<>>, data, now).resp)]_vars

============================================================================
